---- MODULE Spec2Model ----
(***************************************************************************)
(* Model of the GStreamer helpers of microdrop_ext_libs:                   *)
(*   - pygst_utils.video_pipeline.get_pipeline  (pipeline graph assembly)  *)
(*   - pygst_utils.elements.cairo_draw          (overlay draw transform)   *)
(*   - pygst_utils.video_source                 (capability normalization) *)
(* Each subsystem has its own specification (SpecPipeline, SpecDraw,       *)
(* SpecCaps); the variables of the other subsystems stay at their initial  *)
(* values.                                                                 *)
(***************************************************************************)
EXTENDS Integers, Sequences, FiniteSets, TLC

VARIABLES
    \* ---- video_pipeline.get_pipeline ----
    pipe_args,      \* arguments of the last get_pipeline call
    pipeline,       \* the Gst.Pipeline it returned
    \* ---- cairo_draw ----
    element,        \* the overlay element: its draw_on callback and draw_queue
    frame,          \* the last buffer handed to do_transform_ip and its outcome
    draw_instructions,  \* the draw instructions most recently set on the element
    \* ---- video_source ----
    caps_call,      \* which function of video_source is called, and whether it returned
    df_allowed_caps,    \* argument of expand_allowed_capabilities
    frame_rates,    \* its local frame_rates (line 195)
    df_modes,       \* the table it returned
    video_source_names, \* argument of get_source_capabilities
    probe,          \* what probing each device gives (get_allowed_capabilities)
    discovery,      \* what device discovery gives (get_video_source_names)
    source_caps,    \* outcome of get_source_capabilities
    source_names,   \* outcome of get_video_source_names
    allowed_caps,   \* outcome of get_allowed_capabilities and its probe pipeline
    \* ---- pygtkhelpers.gthreads ----
    idle_sources,   \* the idle sources attached to the GLib main loop, in order
    loop_calls,     \* the calls of loop_callback made so far
    task_counter,   \* AsyncTask.counter
    workers,        \* the worker threads of an AsyncTask, one per start()
    gen,            \* a GeneratorTask and its worker thread
    complete_calls, \* number of calls of the complete callback
    invoke,         \* the threads calling invoke_in_mainloop
    results,        \* the results queue of each invoke_in_mainloop call
    wrapped,        \* the calls of a gtk_threadsafe wrapper
    \* ---- pygtkhelpers.proxy ----
    proxy,          \* a GObjectProxy: its class and its connections
    widget,         \* the proxied widget: its value and its signal handlers
    ops,            \* the updates and direct widget changes made so far
    emitted,        \* the emissions of the proxy's 'changed' signal
    \* ---- pygtkhelpers.proxy: ProxyGroup ----
    group_names,    \* for each ProxyGroup the name it added the proxy under
    group_links,    \* the pairs <<group, parent>> made by parent.add_group(group)
    proxy_change,   \* the latest 'changed' emission of the proxy
    group_emitted,  \* the 'changed' emissions of the groups it caused
    \* ---- logging_helpers ----
    root_logger,    \* logging.root: its handlers and its level
    log_ctx,        \* a logging_restore context: where it is and what it saved
    \* ---- rename_package_files ----
    tree,           \* the files and directories under package_dir
    rename_call     \* the call of rename_package_files: its exclude and whether it ran

pipe_vars == <<pipe_args, pipeline>>
draw_vars == <<element, frame, draw_instructions>>
caps_vars == <<caps_call, df_allowed_caps, frame_rates, df_modes,
               video_source_names, probe, discovery, source_caps, source_names,
               allowed_caps>>
thread_vars == <<idle_sources, loop_calls, task_counter, workers, gen,
                 complete_calls, invoke, results, wrapped>>
proxy_vars == <<proxy, widget, ops, emitted>>
group_vars == <<group_names, group_links, proxy_change, group_emitted>>
log_vars == <<root_logger, log_ctx>>
rename_vars == <<tree, rename_call>>
aux_vars == <<group_vars, log_vars, rename_vars>>
helper_vars == <<thread_vars, proxy_vars, aux_vars>>
vars == <<pipe_vars, draw_vars, caps_vars, helper_vars>>

(***************************************************************************)
(* Bounds of the model.                                                    *)
(***************************************************************************)
MaxBitrate == 2     \* bitrate argument ranges over None and 0..MaxBitrate
MaxCmds == 2        \* a DrawQueue holds at most MaxCmds render callables
MaxCaps == 2        \* a device's allowed-caps table has at most MaxCaps structures
MaxList == 2        \* a framerate list has at most MaxList entries
MaxDevices == 2     \* a list of device names has at most MaxDevices entries
MaxStarts == 2      \* an AsyncTask is started at most MaxStarts times
MaxYield == 2       \* a work generator yields at most MaxYield values
MaxRepeat == 2      \* a callback that stays attached is called at most MaxRepeat times
MaxCallers == 2     \* at most MaxCallers threads call invoke_in_mainloop
MaxCalls == 3       \* a gtk_threadsafe wrapper is called at most MaxCalls times
MaxOps == 3         \* a proxy and its widget are updated or changed at most MaxOps times
MaxContent == 2     \* a file's contents hold at most MaxContent words

(***************************************************************************)
(* Python values.  Every value is a record of the same shape so that None, *)
(* integers, strings, booleans and objects can be compared.                *)
(***************************************************************************)
PyNone == [t |-> "None", i |-> 0, s |-> ""]
PyInt(n) == [t |-> "int", i |-> n, s |-> ""]
PyStr(str) == [t |-> "str", i |-> 0, s |-> str]
PyBool(b) == [t |-> "bool", i |-> IF b THEN 1 ELSE 0, s |-> ""]
PyObj(name) == [t |-> "object", i |-> 0, s |-> name]

\* Python truth value testing: None, 0, False and "" are false.
Truthy(v) ==
    CASE v.t = "None" -> FALSE
      [] v.t = "int" -> v.i # 0
      [] v.t = "bool" -> v.i # 0
      [] v.t = "str" -> v.s # ""
      [] OTHER -> TRUE

(***************************************************************************)
(* DrawQueue objects.  draw_queue is None or a DrawQueue instance holding  *)
(* a list of render callables.                                             *)
(***************************************************************************)
RenderCallables == {"arc", "text"}

RECURSIVE SeqsUpTo(_, _)
SeqsUpTo(S, n) ==
    IF n = 0 THEN {<<>>}
    ELSE LET shorter == SeqsUpTo(S, n - 1)
         IN shorter \cup {Append(q, x) : q \in shorter, x \in S}

NoDrawQueue == [isNone |-> TRUE, render_callables |-> <<>>]
DrawQueue(cmds) == [isNone |-> FALSE, render_callables |-> cmds]
DrawQueues == {DrawQueue(q) : q \in SeqsUpTo(RenderCallables, MaxCmds)}

\* Truth value of a draw_queue argument: a DrawQueue instance is an object
\* without __len__/__bool__, hence true; None is false.
DrawQueueTruthy(dq) == ~dq.isNone

\* pickle.dumps / pickle.loads on a draw queue, as a sequence of opcodes:
\* None pickles to "N." (the property's default value).
pickle_dumps(dq) ==
    IF dq.isNone THEN <<"N", ".">>
    ELSE <<"DrawQueue", "(">> \o dq.render_callables \o <<")", ".">>

pickle_loads(blob) ==
    IF blob[1] = "N" THEN NoDrawQueue
    ELSE DrawQueue(SubSeq(blob, 3, Len(blob) - 2))

(***************************************************************************)
(* video_pipeline.get_pipeline                                             *)
(***************************************************************************)
Systems == {"Linux", "Windows"}
OutputPaths == {"", "out.avi"}

PipeArgs ==
    [bitrate : {PyNone} \cup {PyInt(n) : n \in 0..MaxBitrate},
     output_path : {PyNone} \cup {PyStr(p) : p \in OutputPaths},
     draw_queue : {NoDrawQueue} \cup DrawQueues,
     with_scale : {PyBool(b) : b \in BOOLEAN},
     with_warp : {PyBool(b) : b \in BOOLEAN},
     on_frame_grabbed : {PyNone, PyObj("on_frame_grabbed")},
     system : Systems]

NoPipeline ==
    [elements |-> {}, links |-> {}, source_state |-> "NULL",
     bitrate |-> PyNone, location |-> PyNone, draw_queue |-> <<>>,
     display_pre_sink |-> ""]

\* Gst.element_factory_make(factory, name) / class instantiation
Elem(factory, name) == [factory |-> factory, name |-> name]

\* pipeline.add(*elements)
pipeline_add(p, elems) == [p EXCEPT !.elements = @ \cup elems]

element_link_many_first_pair(p, chain) ==
    [p EXCEPT !.links = @ \cup {<<chain[1], chain[2]>>}]

\* Gst.element_link_many(e1, e2, ..., en): link each element to the next
element_link_many(p, chain) ==
    [p EXCEPT !.links = @ \cup {<<chain[i], chain[i + 1]>> :
                                    i \in 1..(Len(chain) - 1)}]

\* lines 25-41: source, videorate, tee, display queue and the video sink
Backbone ==
    LET p1 == [pipeline_add(NoPipeline, {Elem("source", "video_source")})
                 EXCEPT !.source_state = "READY"]
        p2 == pipeline_add(p1, {Elem("videorate", "video_rate"),
                                Elem("tee", "video_tee")})
        p3 == element_link_many(p2, <<"video_source", "video_rate", "video_tee">>)
        p4 == pipeline_add(p3, {Elem("queue", "display_queue"),
                                Elem("autovideosink", "video_sink")})
        p5 == element_link_many(p4, <<"video_tee", "display_queue">>)
    IN [p5 EXCEPT !.display_pre_sink = "display_queue"]

\* lines 43-52
FrameGrabStage(p, on_frame_grabbed) ==
    IF Truthy(on_frame_grabbed)
    THEN LET p1 == pipeline_add(p, {Elem("ffmpegcolorspace", "grab_frame_color_in"),
                                    Elem("grab_frame", "grab_frame"),
                                    Elem("ffmpegcolorspace", "grab_frame_color_out")})
             p2 == element_link_many(p1, <<p.display_pre_sink, "grab_frame_color_in",
                                           "grab_frame", "grab_frame_color_out">>)
         IN [p2 EXCEPT !.display_pre_sink = "grab_frame_color_out"]
    ELSE p

\* lines 54-59
ScaleStage(p, with_scale) ==
    IF Truthy(with_scale)
    THEN LET p1 == pipeline_add(p, {Elem("videoscale", "video_scale"),
                                    Elem("capsfilter", "video_scale_caps_filter")})
             p2 == element_link_many(p1, <<p.display_pre_sink, "video_scale",
                                           "video_scale_caps_filter">>)
         IN [p2 EXCEPT !.display_pre_sink = "video_scale_caps_filter"]
    ELSE p

WarpStageDetached(p, with_warp) ==
    IF Truthy(with_warp)
    THEN LET p1 == pipeline_add(p, {Elem("WarpBin", "warp_bin")})
             p2 == element_link_many(p1, <<"display_queue", "warp_bin">>)
         IN [p2 EXCEPT !.display_pre_sink = "warp_bin"]
    ELSE p

\* lines 61-65
WarpStage(p, with_warp) ==
    IF Truthy(with_warp)
    THEN LET p1 == pipeline_add(p, {Elem("WarpBin", "warp_bin")})
             p2 == element_link_many(p1, <<p.display_pre_sink, "warp_bin">>)
         IN [p2 EXCEPT !.display_pre_sink = "warp_bin"]
    ELSE p

\* lines 67-77
DrawStage(p, draw_queue) ==
    IF DrawQueueTruthy(draw_queue)
    THEN LET p1 == [p EXCEPT !.draw_queue = pickle_dumps(draw_queue)]
             p2 == pipeline_add(p1, {Elem("ffmpegcolorspace", "cairo_color_in"),
                                     Elem("CairoDrawQueue", "cairo_draw"),
                                     Elem("ffmpegcolorspace", "cairo_color_out")})
             p3 == element_link_many(p2, <<p.display_pre_sink, "cairo_color_in",
                                           "cairo_draw", "cairo_color_out">>)
         IN [p3 EXCEPT !.display_pre_sink = "cairo_color_out"]
    ELSE p

\* line 79
LinkVideoSink(p) == element_link_many(p, <<p.display_pre_sink, "video_sink">>)

CaptureRequestedEither(bitrate, output_path) ==
    Truthy(bitrate) \/ Truthy(output_path)

\* line 81: if bitrate and output_path
CaptureRequested(bitrate, output_path) ==
    Truthy(bitrate) /\ Truthy(output_path)

CaptureBranchAtTail(p, bitrate, output_path, system) ==
    IF CaptureRequested(bitrate, output_path)
    THEN LET enc == IF system = "Linux" THEN "ffenc_mpeg4" ELSE "xvidenc"
             p1 == [p EXCEPT !.bitrate = bitrate, !.location = output_path]
             p2 == pipeline_add(p1, {Elem("queue", "capture_queue"),
                                     Elem("ffmpegcolorspace", "ffmpeg_color_space"),
                                     Elem(enc, "ffenc_mpeg40"),
                                     Elem("avimux", "avi_mux"),
                                     Elem("filesink", "file_sink")})
         IN element_link_many(p2, <<p.display_pre_sink, "capture_queue",
                                    "ffmpeg_color_space", "ffenc_mpeg40",
                                    "avi_mux", "file_sink">>)
    ELSE p

\* lines 81-95
CaptureBranch(p, bitrate, output_path, system) ==
    IF CaptureRequested(bitrate, output_path)
    THEN LET enc == IF system = "Linux" THEN "ffenc_mpeg4" ELSE "xvidenc"
             p1 == [p EXCEPT !.bitrate = bitrate, !.location = output_path]
             p2 == pipeline_add(p1, {Elem("queue", "capture_queue"),
                                     Elem("ffmpegcolorspace", "ffmpeg_color_space"),
                                     Elem(enc, "ffenc_mpeg40"),
                                     Elem("avimux", "avi_mux"),
                                     Elem("filesink", "file_sink")})
         IN element_link_many(p2, <<"video_tee", "capture_queue",
                                    "ffmpeg_color_space", "ffenc_mpeg40",
                                    "avi_mux", "file_sink">>)
    ELSE p

\* lines 23-96
get_pipeline(a) ==
    LET p1 == FrameGrabStage(Backbone, a.on_frame_grabbed)
        p2 == ScaleStage(p1, a.with_scale)
        p3 == WarpStage(p2, a.with_warp)
        p4 == DrawStage(p3, a.draw_queue)
        p5 == LinkVideoSink(p4)
    IN CaptureBranch(p5, a.bitrate, a.output_path, a.system)

NoArgs ==
    [bitrate |-> PyNone, output_path |-> PyNone, draw_queue |-> NoDrawQueue,
     with_scale |-> PyBool(FALSE), with_warp |-> PyBool(FALSE),
     on_frame_grabbed |-> PyNone, system |-> "Linux"]

IdlePipeline ==
    /\ pipe_args = NoArgs
    /\ pipeline = NoPipeline

\* A call of get_pipeline is pending with arguments pipe_args.
InitPipeline ==
    /\ pipe_args \in PipeArgs
    /\ pipeline = NoPipeline

GetPipeline ==
    /\ pipeline = NoPipeline
    /\ pipeline' = get_pipeline(pipe_args)
    /\ UNCHANGED <<pipe_args, draw_vars, caps_vars, helper_vars>>

(***************************************************************************)
(* cairo_draw: the overlay draw transform                                  *)
(***************************************************************************)
\* Number of Cairo context calls the default callback issues (lines 141-152).
DefaultDrawCmds == 11

\* How acquiring the drawing surface of a buffer goes: buf.get_caps() or the
\* caps lookup raises, cairo.ImageSurface.create_for_data / cairo.Context
\* raises, or a context is obtained.
Surfaces == {"ok", "get_caps_raises", "create_surface_raises"}

\* A buffer: how surface acquisition goes and which drawing command (1-based)
\* raises when issued; fail_at = 0 (or beyond the last command): none raises.
Buffers == [surface : Surfaces, fail_at : 0..DefaultDrawCmds]

\* Outcome of a callback: whether an exception left it, how many drawing
\* commands completed, whether a drawing command raised, what was printed.
Outcome(raised, issued, draw_failed, log) ==
    [raised |-> raised, issued |-> issued, draw_failed |-> draw_failed, log |-> log]

\* Issue n drawing commands in order against a context; command fail_at raises.
IssueCommands(n, fail_at) ==
    IF fail_at \in 1..n
    THEN [raised |-> TRUE, issued |-> fail_at - 1]
    ELSE [raised |-> FALSE, issued |-> n]

\* DrawQueue.render(ctx): call each render callable in order with the context;
\* an exception of a callable leaves render.
DrawQueue_render(dq, fail_at) == IssueCommands(Len(dq.render_callables), fail_at)

\* lines 122-155 (and other_draw_on, lines 20-53, the default draw_func)
draw_on(buf) ==
    IF buf.surface # "ok"
    THEN Outcome(FALSE, 0, FALSE, "Failed to create cairo surface for buffer")
    ELSE LET r == IssueCommands(DefaultDrawCmds, buf.fail_at)
         IN IF r.raised
            THEN Outcome(FALSE, r.issued, TRUE, "Failed cairo render")
            ELSE Outcome(FALSE, r.issued, FALSE, "")

render_draw_queue_no_return(dq, buf) ==
    IF DrawQueueTruthy(dq)
    THEN IF buf.surface # "ok"
         THEN Outcome(TRUE, 0, FALSE, "Failed to create cairo surface for buffer")
         ELSE LET r == DrawQueue_render(dq, buf.fail_at)
              IN Outcome(r.raised, r.issued, r.raised, "")
    ELSE Outcome(FALSE, 0, FALSE, "")

\* lines 174-187: the surface is acquired inside try/except, the queue is
\* rendered outside of it.
render_draw_queue(dq, buf) ==
    IF DrawQueueTruthy(dq)
    THEN IF buf.surface # "ok"
         THEN Outcome(FALSE, 0, FALSE, "Failed to create cairo surface for buffer")
         ELSE LET r == DrawQueue_render(dq, buf.fail_at)
              IN Outcome(r.raised, r.issued, r.raised, "")
    ELSE Outcome(FALSE, 0, FALSE, "")

DrawFuncs == {"other_draw_on", "draw_on", "render_draw_queue"}

\* lines 118-120: call the callback, then return Gst.FLOW_OK; an exception of
\* the callback leaves do_transform_ip before the return.
do_transform_ip(el, buf) ==
    LET r == IF el.draw_on = "render_draw_queue"
             THEN render_draw_queue(el.draw_queue, buf)
             ELSE draw_on(buf)
    IN [buf |-> buf,
        status |-> IF r.raised THEN "raised" ELSE "FLOW_OK",
        issued |-> r.issued,
        draw_failed |-> r.draw_failed,
        log |-> r.log]

do_set_property_ignored(el, val) == el

\* lines 157-160: do_set_property('draw-queue', val)
do_set_property(el, val) == [el EXCEPT !.draw_queue = pickle_loads(val)]

\* lines 162-165: do_get_property('draw-queue')
do_get_property(el) == pickle_dumps(el.draw_queue)

\* The construct-time default of the 'draw-queue' property (line 95).
DrawQueueDefault == <<"N", ".">>

NoFrame ==
    [buf |-> [surface |-> "ok", fail_at |-> 0], status |-> "none",
     issued |-> 0, draw_failed |-> FALSE, log |-> ""]

\* lines 110-116: CairoDrawBase(name, draw_func); draw_func None keeps the
\* draw_on method, the default is other_draw_on.
NewCairoDrawBase(draw_func_given) ==
    do_set_property([draw_on |-> IF draw_func_given THEN "other_draw_on" ELSE "draw_on",
                     draw_queue |-> NoDrawQueue], DrawQueueDefault)

\* lines 169-172: CairoDrawQueue(name)
NewCairoDrawQueue ==
    do_set_property([draw_on |-> "render_draw_queue", draw_queue |-> NoDrawQueue],
                    DrawQueueDefault)

InitDraw ==
    /\ element = NewCairoDrawBase(TRUE)
    /\ frame = NoFrame
    /\ draw_instructions = NoDrawQueue

\* Construction sets the property to its default, the pickle of None.
ConstructBase ==
    /\ \E given \in BOOLEAN : element' = NewCairoDrawBase(given)
    /\ frame' = NoFrame
    /\ draw_instructions' = NoDrawQueue
    /\ UNCHANGED <<pipe_vars, caps_vars, helper_vars>>

ConstructQueue ==
    /\ element' = NewCairoDrawQueue
    /\ frame' = NoFrame
    /\ draw_instructions' = NoDrawQueue
    /\ UNCHANGED <<pipe_vars, caps_vars, helper_vars>>

\* element.set_property('draw-queue', pickle.dumps(dq))
SetProperty ==
    /\ \E dq \in {NoDrawQueue} \cup DrawQueues :
        /\ element' = do_set_property(element, pickle_dumps(dq))
        /\ draw_instructions' = dq
    /\ UNCHANGED <<pipe_vars, caps_vars, helper_vars, frame>>

\* video_pipeline lines 70-71: get_pipeline creates the CairoDrawQueue element
\* of the draw stage and sets its property to the blob of the stage.
PipelineDrawStage ==
    /\ \E dq \in DrawQueues :
        /\ element' = do_set_property(NewCairoDrawQueue,
                                      DrawStage(Backbone, dq).draw_queue)
        /\ draw_instructions' = dq
    /\ frame' = NoFrame
    /\ UNCHANGED <<pipe_vars, caps_vars, helper_vars>>

TransformIp ==
    /\ \E buf \in Buffers : frame' = do_transform_ip(element, buf)
    /\ UNCHANGED <<pipe_vars, caps_vars, helper_vars, element, draw_instructions>>

(***************************************************************************)
(* video_source: capability query and normalization                        *)
(***************************************************************************)
\* Gst.Fraction values (num, denom), in lowest terms: 10/1 and 15/2.
Fractions == {<<10, 1>>, <<15, 2>>}

FracLess(a, b) == a[1] * b[2] < b[1] * a[2]

\* A framerate field: a Gst.Fraction, a Gst.FractionRange (low < high), or a
\* list of Gst.Fraction.
FractionValue(f) == [t |-> "Fraction", items |-> <<f>>]
FractionRange(low, high) == [t |-> "FractionRange", items |-> <<low, high>>]
FractionList(fs) == [t |-> "list", items |-> fs]

Framerates ==
    {FractionValue(f) : f \in Fractions}
    \cup {FractionRange(lo, hi) : <<lo, hi>> \in {x \in Fractions \X Fractions :
                                                    FracLess(x[1], x[2])}}
    \cup {FractionList(fs) : fs \in SeqsUpTo(Fractions, MaxList) \ {<<>>}}

\* A width/height field: an int or a Gst.IntRange (low < high).
IntValue(n) == [t |-> "int", v |-> n, low |-> 0, high |-> 0]
IntRange(low, high) == [t |-> "IntRange", v |-> 0, low |-> low, high |-> high]

Dimensions ==
    {<<IntValue(320), IntValue(240)>>,
     <<IntRange(160, 640), IntValue(240)>>,
     <<IntValue(320), IntRange(120, 480)>>}

Fourccs == {"YUY2"}

\* One structure of the allowed caps, as get_allowed_capabilities lists it.
Capabilities ==
    {[width |-> d[1], height |-> d[2], format |-> fcc, framerate |-> fr,
      name |-> "video/x-raw-yuv"] : d \in Dimensions, fcc \in Fourccs, fr \in Framerates}

CapsTables == SeqsUpTo(Capabilities, MaxCaps)

extract_dimensions_low(dimensions_obj) ==
    LET Field(x) == IF x.t = "IntRange" THEN x.low ELSE x.v
    IN <<Field(dimensions_obj.width), Field(dimensions_obj.height)>>

\* lines 110-113
extract_dimensions(dimensions_obj) ==
    LET Field(x) == IF x.t = "IntRange" THEN x.high ELSE x.v
    IN <<Field(dimensions_obj.width), Field(dimensions_obj.height)>>

\* line 130
extract_format(format_obj) == format_obj

\* Python's order on (num, denom) tuples: lexicographic.
TupleLess(a, b) == a[1] < b[1] \/ (a[1] = b[1] /\ a[2] < b[2])

\* sorted(set(...)) of a set of tuples
RECURSIVE SortedTuples(_)
SortedTuples(S) ==
    IF S = {} THEN <<>>
    ELSE LET m == CHOOSE x \in S : \A y \in S \ {x} : TupleLess(x, y)
         IN <<m>> \o SortedTuples(S \ {m})

SeqToSet(q) == {q[i] : i \in 1..Len(q)}

\* q without the repetitions of its elements, in order of first occurrence
RECURSIVE FirstOccurrences(_)
FirstOccurrences(q) ==
    IF q = <<>> THEN <<>>
    ELSE LET front == FirstOccurrences(SubSeq(q, 1, Len(q) - 1))
         IN IF q[Len(q)] \in SeqToSet(front) THEN front
            ELSE Append(front, q[Len(q)])

extract_fps_high_only(framerate_obj) ==
    LET framerates ==
            IF framerate_obj.t = "list" THEN framerate_obj.items
            ELSE IF framerate_obj.t = "FractionRange"
                 THEN <<framerate_obj.items[2]>>
                 ELSE <<framerate_obj.items[1]>>
    IN SortedTuples(SeqToSet(framerates))

extract_fps_unsorted(framerate_obj) ==
    LET framerates ==
            IF framerate_obj.t = "list" THEN framerate_obj.items
            ELSE IF framerate_obj.t = "FractionRange"
                 THEN <<framerate_obj.items[1], framerate_obj.items[2]>>
                 ELSE <<framerate_obj.items[1]>>
    IN FirstOccurrences(framerates)

\* lines 147-159: a list iterates; a FractionRange is not iterable and gives
\* its low and high; anything else is taken as a single fraction.
extract_fps(framerate_obj) ==
    LET framerates ==
            IF framerate_obj.t = "list" THEN framerate_obj.items
            ELSE IF framerate_obj.t = "FractionRange"
                 THEN <<framerate_obj.items[1], framerate_obj.items[2]>>
                 ELSE <<framerate_obj.items[1]>>
    IN SortedTuples(SeqToSet(framerates))

RECURSIVE Gcd(_, _)
Gcd(a, b) == IF b = 0 THEN a ELSE Gcd(b, a % b)

\* line 209: framerate_num / framerate_denom, kept as the exact quotient
Quotient(num, denom) == <<num \div Gcd(num, denom), denom \div Gcd(num, denom)>>

\* line 203: mode_i.tolist() + list(fps_j), as a row of the returned table
ModeRow(cap, fps) ==
    LET dims == extract_dimensions(cap)
    IN [width |-> dims[1], height |-> dims[2], name |-> cap.name,
        fourcc |-> extract_format(cap.format),
        framerate_num |-> fps[1], framerate_denom |-> fps[2],
        framerate |-> Quotient(fps[1], fps[2])]

\* lines 200-204: one row per framerate of each capability, in order
RECURSIVE ExpandRows(_, _, _)
ExpandRows(df, rates, i) ==
    IF i > Len(df) THEN <<>>
    ELSE [j \in 1..Len(rates[i]) |-> ModeRow(df[i], rates[i][j])]
         \o ExpandRows(df, rates, i + 1)

\* line 195
FrameRatesOf(df) == [i \in 1..Len(df) |-> extract_fps(df[i].framerate)]

\* lines 182-211
expand_allowed_capabilities(df) == ExpandRows(df, FrameRatesOf(df), 1)

Devices == {"cam0", "cam1"}

\* What probing a device gives: linking raises Gst.LinkError, reading the
\* allowed caps raises another exception, or a (possibly empty) list of caps.
ProbeLinkError == [kind |-> "LinkError", caps |-> <<>>]
ProbeOtherError == [kind |-> "TypeError", caps |-> <<>>]
ProbeCaps(t) == [kind |-> "ok", caps |-> t]

get_allowed_capabilities_uncaught(p) ==
    CASE p.kind = "ok" ->
            [raised |-> "", caps |-> p.caps, was_ready |-> TRUE, state |-> "NULL"]
      [] p.kind = "LinkError" ->
            [raised |-> p.kind, caps |-> <<>>, was_ready |-> FALSE, state |-> "NULL"]
      [] OTHER ->
            [raised |-> p.kind, caps |-> <<>>, was_ready |-> TRUE, state |-> "READY"]

\* lines 72-94: LinkError is caught and gives no caps; any other exception
\* leaves the function.  was_ready, state: whether the probe pipeline (new
\* pipelines are in the NULL state) was set to READY (line 83), and the state
\* it is in when the function is left: line 87 sets it to NULL once the
\* allowed caps were read; the finally clause (lines 91-92) only deletes the
\* local name.
get_allowed_capabilities(p) ==
    CASE p.kind = "LinkError" ->
            [raised |-> "", caps |-> <<>>, was_ready |-> FALSE, state |-> "NULL"]
      [] p.kind = "ok" ->
            [raised |-> "", caps |-> p.caps, was_ready |-> TRUE, state |-> "NULL"]
      [] OTHER ->
            [raised |-> p.kind, caps |-> <<>>, was_ready |-> TRUE, state |-> "READY"]

\* What discovery gives: the directory listing / element probing raises, or a
\* list of device names.
Discoveries ==
    [system : Systems, raises : BOOLEAN, devices : SeqsUpTo(Devices, MaxDevices)]

\* lines 33-47
get_video_source_names(d) ==
    IF d.system = "Linux"
    THEN IF d.raises
         THEN [raised |-> "DeviceNotFound", devices |-> <<>>]
         ELSE [raised |-> "", devices |-> d.devices]
    ELSE LET devices == IF d.raises THEN <<>> ELSE d.devices
         IN IF devices = <<>>
            THEN [raised |-> "DeviceNotFound", devices |-> <<>>]
            ELSE [raised |-> "", devices |-> devices]

\* line 242: df_source_caps_i.insert(0, 'device_name', device_name_i)
WithDeviceName(rows, device_name) ==
    [k \in 1..Len(rows) |->
        [device_name |-> device_name, width |-> rows[k].width,
         height |-> rows[k].height, name |-> rows[k].name,
         fourcc |-> rows[k].fourcc, framerate_num |-> rows[k].framerate_num,
         framerate_denom |-> rows[k].framerate_denom,
         framerate |-> rows[k].framerate]]

RECURSIVE CollectFramesReversed(_, _, _)
CollectFramesReversed(names, pr, i) ==
    IF i > Len(names) THEN [raised |-> "", frames |-> <<>>]
    ELSE LET got == get_allowed_capabilities(pr[names[i]])
             rest == CollectFramesReversed(names, pr, i + 1)
         IN IF got.raised # "" THEN [raised |-> got.raised, frames |-> <<>>]
            ELSE IF rest.raised # "" THEN rest
            ELSE IF Len(got.caps) = 0 THEN rest
            ELSE [raised |-> "",
                  frames |-> rest.frames
                             \o <<WithDeviceName(expand_allowed_capabilities(got.caps),
                                                 names[i])>>]

\* lines 234-243: the tables of the devices from position i on, in order
RECURSIVE CollectFrames(_, _, _)
CollectFrames(names, pr, i) ==
    IF i > Len(names) THEN [raised |-> "", frames |-> <<>>]
    ELSE LET got == get_allowed_capabilities(pr[names[i]])
             rest == CollectFrames(names, pr, i + 1)
         IN IF got.raised # "" THEN [raised |-> got.raised, frames |-> <<>>]
            ELSE IF rest.raised # "" THEN rest
            ELSE IF Len(got.caps) = 0 THEN rest
            ELSE [raised |-> "",
                  frames |-> <<WithDeviceName(expand_allowed_capabilities(got.caps),
                                              names[i])>> \o rest.frames]

RECURSIVE Concat(_)
Concat(frames) ==
    IF frames = <<>> THEN <<>> ELSE Head(frames) \o Concat(Tail(frames))

NamesNone == [isNone |-> TRUE, names |-> <<>>]
NamesList(l) == [isNone |-> FALSE, names |-> l]

get_source_capabilities_concat_always(arg, pr, disc) ==
    LET found == IF arg.isNone THEN get_video_source_names(disc)
                 ELSE [raised |-> "", devices |-> arg.names]
        got == CollectFrames(found.devices, pr, 1)
    IN IF found.raised # "" THEN [status |-> found.raised, rows |-> <<>>]
       ELSE IF got.raised # "" THEN [status |-> got.raised, rows |-> <<>>]
       ELSE IF got.frames # <<>>
            THEN [status |-> "returned", rows |-> Concat(got.frames)]
            ELSE [status |-> "ValueError", rows |-> <<>>]

\* lines 231-247
get_source_capabilities(arg, pr, disc) ==
    LET found == IF arg.isNone THEN get_video_source_names(disc)
                 ELSE [raised |-> "", devices |-> arg.names]
        got == CollectFrames(found.devices, pr, 1)
    IN IF found.raised # "" THEN [status |-> found.raised, rows |-> <<>>]
       ELSE IF got.raised # "" THEN [status |-> got.raised, rows |-> <<>>]
       ELSE IF got.frames # <<>>
            THEN [status |-> "returned", rows |-> Concat(got.frames)]
            ELSE [status |-> "returned", rows |-> <<>>]

\* Tables a probed device reports in a multi-device query.
DeviceCapabilities ==
    {[width |-> IntRange(160, 640), height |-> IntValue(240), format |-> "YUY2",
      framerate |-> FractionRange(<<15, 2>>, <<10, 1>>), name |-> "video/x-raw-yuv"],
     [width |-> IntValue(320), height |-> IntValue(240), format |-> "YUY2",
      framerate |-> FractionList(<<<<10, 1>>, <<10, 1>>>>), name |-> "video/x-raw-yuv"]}

Probes ==
    {ProbeLinkError, ProbeOtherError}
    \cup {ProbeCaps(t) : t \in SeqsUpTo(DeviceCapabilities, MaxCaps)}

NoDiscovery == [system |-> "Linux", raises |-> FALSE, devices |-> <<>>]
NoSourceCaps == [status |-> "none", rows |-> <<>>]
NoSourceNames == [raised |-> "none", devices |-> <<>>]
NoAllowedCaps ==
    [raised |-> "none", caps |-> <<>>, was_ready |-> FALSE, state |-> "NULL"]

IdleCaps ==
    /\ caps_call = [fn |-> "none", done |-> TRUE]
    /\ df_allowed_caps = <<>>
    /\ frame_rates = <<>>
    /\ df_modes = <<>>
    /\ video_source_names = NamesList(<<>>)
    /\ probe = [d \in Devices |-> ProbeLinkError]
    /\ discovery = NoDiscovery
    /\ source_caps = NoSourceCaps
    /\ source_names = NoSourceNames
    /\ allowed_caps = NoAllowedCaps

\* A call of expand_allowed_capabilities or of get_source_capabilities is
\* pending, with its arguments and what the devices will report.
InitCaps ==
    /\ frame_rates = <<>>
    /\ df_modes = <<>>
    /\ source_caps = NoSourceCaps
    /\ source_names = NoSourceNames
    /\ allowed_caps = NoAllowedCaps
    /\ \/ /\ caps_call = [fn |-> "expand_allowed_capabilities", done |-> FALSE]
          /\ df_allowed_caps \in CapsTables \ {<<>>}
          /\ video_source_names = NamesList(<<>>)
          /\ probe = [d \in Devices |-> ProbeLinkError]
          /\ discovery = NoDiscovery
       \/ /\ caps_call = [fn |-> "get_source_capabilities", done |-> FALSE]
          /\ df_allowed_caps = <<>>
          /\ probe \in [Devices -> Probes]
          /\ \/ /\ video_source_names \in {NamesList(l) : l \in SeqsUpTo(Devices, MaxDevices)}
                /\ discovery = NoDiscovery
             \/ /\ video_source_names = NamesNone
                /\ discovery \in Discoveries
       \/ /\ caps_call = [fn |-> "get_video_source_names", done |-> FALSE]
          /\ df_allowed_caps = <<>>
          /\ video_source_names = NamesNone
          /\ probe = [d \in Devices |-> ProbeLinkError]
          /\ discovery \in Discoveries
       \/ /\ caps_call = [fn |-> "get_allowed_capabilities", done |-> FALSE]
          /\ df_allowed_caps = <<>>
          /\ video_source_names \in {NamesList(<<d>>) : d \in Devices}
          /\ probe \in [Devices -> Probes]
          /\ discovery = NoDiscovery

ExpandAllowedCapabilities ==
    /\ caps_call = [fn |-> "expand_allowed_capabilities", done |-> FALSE]
    /\ caps_call' = [caps_call EXCEPT !.done = TRUE]
    /\ frame_rates' = FrameRatesOf(df_allowed_caps)
    /\ df_modes' = expand_allowed_capabilities(df_allowed_caps)
    /\ UNCHANGED <<pipe_vars, draw_vars, helper_vars, df_allowed_caps, video_source_names,
                   probe, discovery, source_caps, source_names, allowed_caps>>

GetSourceCapabilities ==
    /\ caps_call = [fn |-> "get_source_capabilities", done |-> FALSE]
    /\ caps_call' = [caps_call EXCEPT !.done = TRUE]
    /\ source_caps' = get_source_capabilities(video_source_names, probe, discovery)
    /\ UNCHANGED <<pipe_vars, draw_vars, helper_vars, df_allowed_caps, frame_rates, df_modes,
                   video_source_names, probe, discovery, source_names, allowed_caps>>

GetVideoSourceNames ==
    /\ caps_call = [fn |-> "get_video_source_names", done |-> FALSE]
    /\ caps_call' = [caps_call EXCEPT !.done = TRUE]
    /\ source_names' = get_video_source_names(discovery)
    /\ UNCHANGED <<pipe_vars, draw_vars, helper_vars, df_allowed_caps, frame_rates, df_modes,
                   video_source_names, probe, discovery, source_caps, allowed_caps>>

\* get_allowed_capabilities(device_name) for the one device named
GetAllowedCapabilities ==
    /\ caps_call = [fn |-> "get_allowed_capabilities", done |-> FALSE]
    /\ caps_call' = [caps_call EXCEPT !.done = TRUE]
    /\ allowed_caps' = get_allowed_capabilities(probe[video_source_names.names[1]])
    /\ UNCHANGED <<pipe_vars, draw_vars, helper_vars, df_allowed_caps, frame_rates, df_modes,
                   video_source_names, probe, discovery, source_caps, source_names>>

(***************************************************************************)
(* pygtkhelpers.gthreads: the GLib main loop and its idle sources          *)
(***************************************************************************)
\* GLib idle priorities (a lower number is dispatched first).
PRIORITY_HIGH_IDLE == 100
PRIORITY_DEFAULT_IDLE == 200

\* Values a callback returns: None, an object that is no tuple, or a tuple of
\* objects.
RetNone == [t |-> "None", name |-> "", items |-> <<>>]
RetObj(n) == [t |-> "object", name |-> n, items |-> <<>>]
RetTuple(names) == [t |-> "tuple", name |-> "", items |-> names]
Rets == {RetNone, RetObj("x"), RetTuple(<<>>), RetTuple(<<"a", "b">>)}

\* An idle source: the callback, its priority and the data it was added with
\* (id: the start, caller or call it belongs to).
Source(cb, priority, id, counter, ret) ==
    [cb |-> cb, priority |-> priority, id |-> id, counter |-> counter, ret |-> ret]

\* GObject.idle_add(callback, data, priority=...): attach after the sources
\* already there.
idle_add(q, src) == Append(q, src)

\* The source the main loop dispatches next: the first of those with the
\* highest priority.
NextSource(q) ==
    CHOOSE i \in 1..Len(q) :
        /\ \A j \in 1..Len(q) : q[i].priority <= q[j].priority
        /\ \A j \in 1..(i - 1) : q[j].priority > q[i].priority

RemoveAt(q, i) == SubSeq(q, 1, i - 1) \o SubSeq(q, i + 1, Len(q))

\* After a dispatch: a source whose callback returned a true value stays
\* attached (behind the others), otherwise it is removed.
AfterDispatch(q, i, again) ==
    IF again THEN Append(RemoveAt(q, i), q[i]) ELSE RemoveAt(q, i)

(***************************************************************************)
(* AsyncTask                                                               *)
(***************************************************************************)
LoopArgsSingle(ret) ==
    IF ret.t = "None" THEN <<>> ELSE <<ret>>

\* lines 122-125: the arguments loop_callback is called with
LoopArgs(ret) ==
    IF ret.t = "None" THEN <<>>
    ELSE IF ret.t = "tuple" THEN [k \in 1..Len(ret.items) |-> RetObj(ret.items[k])]
    ELSE <<ret>>

\* lines 117-127: _loop_callback((counter, ret)) run by the main loop for the
\* source src; a stale counter returns without calling loop_callback.
LoopCallbackCalls(self_counter, src, latest) ==
    IF src.counter # self_counter THEN <<>>
    ELSE <<[start |-> src.id, ret |-> src.ret, args |-> LoopArgs(src.ret),
            thread |-> "mainloop", latest |-> latest]>>

\* lines 91-104: start() hands the current counter to a new worker thread; the
\* counter itself is left as it is.
AsyncStart ==
    /\ Len(workers) < MaxStarts
    /\ workers' = Append(workers, [pc |-> "working", counter |-> task_counter,
                                   ret |-> RetNone])
    /\ UNCHANGED <<pipe_vars, draw_vars, caps_vars, proxy_vars, aux_vars, idle_sources, loop_calls,
                   task_counter, gen, complete_calls, invoke, results, wrapped>>

\* lines 112-115: _work_callback on the worker thread: run work_callback, then
\* idle_add(self._loop_callback, (counter, ret))
AsyncWorkCallback ==
    /\ \E w \in 1..Len(workers), ret \in Rets :
        /\ workers[w].pc = "working"
        /\ workers' = [workers EXCEPT ![w].pc = "posted", ![w].ret = ret]
        /\ idle_sources' = idle_add(idle_sources,
                                    Source("_loop_callback", PRIORITY_DEFAULT_IDLE,
                                           w, workers[w].counter, ret))
    /\ UNCHANGED <<pipe_vars, draw_vars, caps_vars, proxy_vars, aux_vars, loop_calls, task_counter,
                   gen, complete_calls, invoke, results, wrapped>>

\* The main loop dispatches an idle source whose callback is _loop_callback;
\* the callback returns None, so the source is removed.
DispatchLoopCallback ==
    /\ idle_sources # <<>>
    /\ LET i == NextSource(idle_sources)
       IN /\ idle_sources[i].cb = "_loop_callback"
          /\ loop_calls' = loop_calls
                \o LoopCallbackCalls(task_counter, idle_sources[i], Len(workers))
          /\ idle_sources' = AfterDispatch(idle_sources, i, FALSE)
    /\ UNCHANGED <<pipe_vars, draw_vars, caps_vars, proxy_vars, aux_vars, task_counter, workers, gen,
                   complete_calls, invoke, results, wrapped>>

\* lines 81-89: AsyncTask.__init__
InitAsync ==
    /\ idle_sources = <<>>
    /\ loop_calls = <<>>
    /\ task_counter = 0
    /\ workers = <<>>

(***************************************************************************)
(* GeneratorTask                                                           *)
(***************************************************************************)
YieldSeqs == UNION {[1..n -> Rets] : n \in 0..MaxYield}

Priorities == {PRIORITY_HIGH_IDLE, PRIORITY_DEFAULT_IDLE}

CompleteSourceUrgent(g) ==
    Source("_complete_callback", PRIORITY_HIGH_IDLE, 1, 0, RetNone)

\* lines 183-184: GObject.idle_add(self._complete_callback,
\*                                 priority=self.priority)
CompleteSource(g) ==
    Source("_complete_callback", g.priority, 1, 0, RetNone)

\* lines 159-165: GeneratorTask(work, loop, complete_callback, priority);
\* values: what the work generator will yield; complete_again: whether the
\* complete callback returns a true value.
InitGenerator ==
    /\ InitAsync
    /\ \E vs \in YieldSeqs, p \in Priorities, given \in BOOLEAN, again \in BOOLEAN :
        /\ again => given
        /\ gen = [pc |-> "constructed", values |-> vs, next |-> 1,
                  stopped |-> FALSE, stop_called |-> FALSE, priority |-> p,
                  complete_given |-> given, complete_again |-> again]
    /\ complete_calls = 0

\* lines 91-104: start() (inherited from AsyncTask) hands the counter to a new
\* worker thread.
GenStart ==
    /\ gen.pc = "constructed"
    /\ gen' = [gen EXCEPT !.pc = "started"]
    /\ workers' = Append(workers, [pc |-> "working", counter |-> task_counter,
                                   ret |-> RetNone])
    /\ UNCHANGED <<pipe_vars, draw_vars, caps_vars, proxy_vars, aux_vars, idle_sources, loop_calls,
                   task_counter, complete_calls, invoke, results, wrapped>>

\* line 168: the worker thread enters _work_callback: self._stopped = False
GenWorkBegin ==
    /\ gen.pc = "started"
    /\ gen' = [gen EXCEPT !.pc = "iterating", !.stopped = FALSE]
    /\ UNCHANGED <<pipe_vars, draw_vars, caps_vars, proxy_vars, aux_vars, idle_sources, loop_calls,
                   task_counter, workers, complete_calls, invoke, results, wrapped>>

\* lines 172-177: one turn of the for loop on the worker thread: the generator
\* yields ret; a stopped task exits the thread, otherwise the value is handed
\* to the main loop.
GenWorkYield ==
    /\ gen.pc = "iterating"
    /\ gen.next <= Len(gen.values)
    /\ IF gen.stopped
       THEN /\ gen' = [gen EXCEPT !.pc = "exited"]
            /\ UNCHANGED idle_sources
       ELSE /\ gen' = [gen EXCEPT !.next = gen.next + 1]
            /\ idle_sources' = idle_add(idle_sources,
                                        Source("_loop_callback", gen.priority, 1,
                                               workers[1].counter,
                                               gen.values[gen.next]))
    /\ UNCHANGED <<pipe_vars, draw_vars, caps_vars, proxy_vars, aux_vars, loop_calls, task_counter,
                   workers, complete_calls, invoke, results, wrapped>>

\* lines 178-184: the generator is exhausted: hand the complete callback, if
\* there is one, to the main loop.
GenWorkFinish ==
    /\ gen.pc = "iterating"
    /\ gen.next > Len(gen.values)
    /\ gen' = [gen EXCEPT !.pc = "done"]
    /\ workers' = [workers EXCEPT ![1].pc = "posted"]
    /\ idle_sources' = IF gen.complete_given
                       THEN idle_add(idle_sources, CompleteSource(gen))
                       ELSE idle_sources
    /\ UNCHANGED <<pipe_vars, draw_vars, caps_vars, proxy_vars, aux_vars, loop_calls, task_counter,
                   complete_calls, invoke, results, wrapped>>

\* lines 186-187: stop(), called from any other thread
GenStop ==
    /\ gen.pc \in {"started", "iterating", "done"}
    /\ gen' = [gen EXCEPT !.stopped = TRUE, !.stop_called = TRUE]
    /\ UNCHANGED <<pipe_vars, draw_vars, caps_vars, proxy_vars, aux_vars, idle_sources, loop_calls,
                   task_counter, workers, complete_calls, invoke, results, wrapped>>

\* The main loop dispatches the idle source of the complete callback; the
\* callback itself is the source's function, so a true return value keeps the
\* source attached.
DispatchComplete ==
    /\ idle_sources # <<>>
    /\ complete_calls < MaxRepeat
    /\ LET i == NextSource(idle_sources)
       IN /\ idle_sources[i].cb = "_complete_callback"
          /\ complete_calls' = complete_calls + 1
          /\ idle_sources' = AfterDispatch(idle_sources, i, gen.complete_again)
    /\ UNCHANGED <<pipe_vars, draw_vars, caps_vars, proxy_vars, aux_vars, loop_calls, task_counter,
                   workers, gen, invoke, results, wrapped>>

(***************************************************************************)
(* gcall, invoke_in_mainloop                                               *)
(***************************************************************************)
\* sys.exc_info() of the exception func raised
RetExcInfo == [t |-> "exc_info", name |-> "exception", items |-> <<>>]

\* bool(value): None and the empty tuple are false
RetTruthy(ret) ==
    \/ ret.t = "object"
    \/ ret.t = "exc_info"
    \/ (ret.t = "tuple" /\ ret.items # <<>>)

\* What func does when the main loop calls it: return a value or raise.
FuncOutcomes ==
    [raises : {FALSE}, value : Rets] \cup {[raises |-> TRUE, value |-> RetNone]}

\* lines 218-226: what run() puts on the results queue
RunPuts(outcome) ==
    IF outcome.raises THEN <<RetNone, RetExcInfo>> ELSE <<outcome.value, RetNone>>

\* lines 204-206 around run(): idle() returns bool(run()); run returns None,
\* and an exception leaving the callback removes the source as well.
RunAgain(outcome) ==
    IF outcome.raises THEN FALSE ELSE RetTruthy(RetNone)

\* lines 215-217, 208: the calling thread creates the queue and hands run to
\* the main loop with gcall.
InvokeCall ==
    /\ Len(invoke) < MaxCallers
    /\ invoke' = Append(invoke, [pc |-> "get_data", run |-> "pending",
                                 outcome |-> [raises |-> FALSE, value |-> RetNone],
                                 data |-> RetNone, exception |-> RetNone,
                                 result |-> RetNone])
    /\ results' = Append(results, <<>>)
    /\ idle_sources' = idle_add(idle_sources,
                                Source("idle", PRIORITY_DEFAULT_IDLE,
                                       Len(invoke) + 1, 0, RetNone))
    /\ UNCHANGED <<pipe_vars, draw_vars, caps_vars, proxy_vars, aux_vars, loop_calls, task_counter,
                   workers, gen, complete_calls, wrapped>>

\* lines 204-206, 218-226: the main loop dispatches gcall's idle(), which runs
\* run(): func is called and its outcome is put on the caller's queue.
DispatchRun ==
    /\ idle_sources # <<>>
    /\ LET i == NextSource(idle_sources)
           c == idle_sources[i].id
       IN /\ idle_sources[i].cb = "idle"
          /\ \E outcome \in FuncOutcomes :
                /\ invoke' = [invoke EXCEPT ![c].run = "done", ![c].outcome = outcome]
                /\ results' = [results EXCEPT ![c] = results[c] \o RunPuts(outcome)]
                /\ idle_sources' = AfterDispatch(idle_sources, i, RunAgain(outcome))
    /\ UNCHANGED <<pipe_vars, draw_vars, caps_vars, proxy_vars, aux_vars, loop_calls, task_counter,
                   workers, gen, complete_calls, wrapped>>

\* lines 228-235: the calling thread's next results.get(), which blocks while
\* the queue is empty, and what follows it up to the next get, the return or
\* the raise.
InvokeGet ==
    /\ \E c \in 1..Len(invoke) :
        /\ invoke[c].pc \in {"get_data", "get_exception", "get_exc_info"}
        /\ results[c] # <<>>
        /\ results' = [results EXCEPT ![c] = Tail(results[c])]
        /\ LET item == Head(results[c])
           IN invoke' =
                CASE invoke[c].pc = "get_data" ->
                        [invoke EXCEPT ![c].pc = "get_exception", ![c].data = item]
                  [] invoke[c].pc = "get_exception" ->
                        IF item.t = "None"
                        THEN [invoke EXCEPT ![c].pc = "returned",
                                            ![c].exception = item,
                                            ![c].result = invoke[c].data]
                        ELSE [invoke EXCEPT ![c].pc = "get_exc_info",
                                            ![c].exception = item]
                  [] invoke[c].pc = "get_exc_info" ->
                        [invoke EXCEPT ![c].pc = "raised", ![c].result = item]
    /\ UNCHANGED <<pipe_vars, draw_vars, caps_vars, proxy_vars, aux_vars, idle_sources, loop_calls,
                   task_counter, workers, gen, complete_calls, wrapped>>

(***************************************************************************)
(* gtk_threadsafe                                                          *)
(***************************************************************************)
ReturnFunc(ret) == ret

\* lines 269-270: _no_return_func calls func and returns None
NoReturnFunc(ret) == RetNone

\* lines 268-272: a call of the wrapper adds _no_return_func as an idle source
\* and returns; func has not run.
ThreadsafeCall ==
    /\ Len(wrapped) < MaxCalls
    /\ wrapped' = Append(wrapped, [returned |-> TRUE, threads |-> <<>>,
                                   ret |-> RetNone])
    /\ idle_sources' = idle_add(idle_sources,
                                Source("_no_return_func", PRIORITY_DEFAULT_IDLE,
                                       Len(wrapped) + 1, 0, RetNone))
    /\ UNCHANGED <<pipe_vars, draw_vars, caps_vars, proxy_vars, aux_vars, loop_calls, task_counter,
                   workers, gen, complete_calls, invoke, results>>

\* The main loop dispatches _no_return_func: func runs and returns ret; the
\* source stays attached if the idle callback's own return value is true.
DispatchNoReturnFunc ==
    /\ idle_sources # <<>>
    /\ LET i == NextSource(idle_sources)
           k == idle_sources[i].id
       IN /\ idle_sources[i].cb = "_no_return_func"
          /\ Len(wrapped[k].threads) < MaxRepeat
          /\ \E ret \in Rets :
                /\ wrapped' = [wrapped EXCEPT
                                  ![k].threads = Append(@, "mainloop"),
                                  ![k].ret = ret]
                /\ idle_sources' = AfterDispatch(idle_sources, i,
                                                 RetTruthy(NoReturnFunc(ret)))
    /\ UNCHANGED <<pipe_vars, draw_vars, caps_vars, proxy_vars, aux_vars, loop_calls, task_counter,
                   workers, gen, complete_calls, invoke, results>>

NoGen ==
    [pc |-> "none", values |-> <<>>, next |-> 1, stopped |-> FALSE,
     stop_called |-> FALSE, priority |-> PRIORITY_DEFAULT_IDLE,
     complete_given |-> FALSE, complete_again |-> FALSE]

IdleThreads ==
    /\ InitAsync
    /\ gen = NoGen
    /\ complete_calls = 0
    /\ invoke = <<>>
    /\ results = <<>>
    /\ wrapped = <<>>

(***************************************************************************)
(* pygtkhelpers.proxy: GObjectProxy                                        *)
(***************************************************************************)
\* Proxy classes with their signal_name ("None": a read-only widget).
ProxyTypes ==
    {[class |-> "GtkEntryProxy", signal_name |-> "changed"],
     [class |-> "GtkRangeProxy", signal_name |-> "value-changed"],
     [class |-> "GtkLabelProxy", signal_name |-> "None"]}

WidgetValues == {"hello", "bye bye"}

NewWidget == [value |-> "", handlers |-> <<>>]

\* lines 129-138: connect_widget connects widget_changed to the widget's
\* signal unless signal_name is None; returns the connections and the widget.
connect_widget(type, w) ==
    IF type.signal_name # "None"
    THEN LET sid == Len(w.handlers) + 1
         IN [connections |-> <<sid>>,
             widget |-> [w EXCEPT !.handlers =
                            Append(@, [sid |-> sid, signal |-> type.signal_name,
                                       blocked |-> 0])]]
    ELSE [connections |-> <<>>, widget |-> w]

InConnections(conns, sid) == \E k \in 1..Len(conns) : conns[k] = sid

\* lines 86-88: block() blocks every connection on the widget
block(conns, w) ==
    [w EXCEPT !.handlers =
        [h \in 1..Len(w.handlers) |->
            IF InConnections(conns, w.handlers[h].sid)
            THEN [w.handlers[h] EXCEPT !.blocked = @ + 1]
            ELSE w.handlers[h]]]

\* lines 90-92: unblock()
unblock(conns, w) ==
    [w EXCEPT !.handlers =
        [h \in 1..Len(w.handlers) |->
            IF InConnections(conns, w.handlers[h].sid)
            THEN [w.handlers[h] EXCEPT !.blocked = @ - 1]
            ELSE w.handlers[h]]]

\* lines 101-109: widget_changed emits 'changed' with the
\* widget's value
widget_changed(w, op) ==
    [op |-> op, value |-> w.value, via |-> "widget_changed"]

\* The widget takes a new value; when the value changes it emits its signal,
\* which runs its handlers that are not blocked (each is widget_changed).
WidgetSet(w, v, op) ==
    LET nw == [w EXCEPT !.value = v]
        Fired[h \in 0..Len(w.handlers)] ==
            IF h = 0 THEN <<>>
            ELSE IF w.value # v /\ w.handlers[h].blocked = 0
                 THEN Append(Fired[h - 1], widget_changed(nw, op))
                 ELSE Fired[h - 1]
    IN [widget |-> nw, emitted |-> Fired[Len(w.handlers)]]

update_internal_unblocked(conns, w, v, op) ==
    WidgetSet(w, v, op)

\* lines 94-99: update_internal: block, set_widget_value, unblock
update_internal(conns, w, v, op) ==
    LET set == WidgetSet(block(conns, w), v, op)
    IN [widget |-> unblock(conns, set.widget), emitted |-> set.emitted]

\* lines 73-77: update(value)
update(conns, w, v, op) ==
    LET internal == update_internal(conns, w, v, op)
    IN [widget |-> internal.widget,
        emitted |-> Append(internal.emitted,
                           [op |-> op, value |-> internal.widget.value,
                            via |-> "update"])]

NoProxy == [class |-> "none", signal_name |-> "None", connections |-> <<>>]

IdleProxy ==
    /\ proxy = NoProxy
    /\ widget = NewWidget
    /\ ops = <<>>
    /\ emitted = <<>>

\* lines 65-69: __init__ stores the widget and calls connect_widget
InitProxy ==
    /\ \E type \in ProxyTypes :
        LET c == connect_widget(type, NewWidget)
        IN /\ proxy = [class |-> type.class, signal_name |-> type.signal_name,
                       connections |-> c.connections]
           /\ widget = c.widget
    /\ ops = <<>>
    /\ emitted = <<>>

\* proxy.update(value)
ProxyUpdate ==
    /\ Len(ops) < MaxOps
    /\ \E v \in WidgetValues :
        LET op == Len(ops) + 1
            r == update(proxy.connections, widget, v, op)
        IN /\ widget' = r.widget
           /\ emitted' = emitted \o r.emitted
           /\ ops' = Append(ops, [kind |-> "update", value |-> v])
    /\ UNCHANGED <<pipe_vars, draw_vars, caps_vars, thread_vars, aux_vars, proxy>>

\* The widget's value is changed outside update (by the user or by other
\* code).
WidgetDirectChange ==
    /\ Len(ops) < MaxOps
    /\ \E v \in WidgetValues :
        LET op == Len(ops) + 1
            r == WidgetSet(widget, v, op)
        IN /\ v # widget.value
           /\ widget' = r.widget
           /\ emitted' = emitted \o r.emitted
           /\ ops' = Append(ops, [kind |-> "direct", value |-> v])
    /\ UNCHANGED <<pipe_vars, draw_vars, caps_vars, thread_vars, aux_vars, proxy>>

(***************************************************************************)
(* pygtkhelpers.proxy: ProxyGroup                                          *)
(***************************************************************************)
\* Three ProxyGroup objects; add_group only ever adds a group to one further
\* right in this list, so that no group is its own ancestor.
Groups == {"group", "parent", "grandparent"}

GroupLinks ==
    {<<"group", "parent">>, <<"parent", "grandparent">>, <<"group", "grandparent">>}

ProxyNames == {"name", "other"}

\* Arguments of a group's 'changed' signal, gsignal('changed', object, str,
\* object), by position.
SignalArgs(a1, a2, a3) == [first |-> a1, second |-> a2, third |-> a3]

\* lines 386-387: _on_proxy_changed(self, proxy, value, name) is called with
\* the proxy's signal arguments (proxy, value) and the user data name; it
\* emits 'changed' with (proxy, name, value).
on_proxy_changed(proxy_arg, value_arg, name_arg) ==
    SignalArgs(proxy_arg, name_arg, value_arg)

\* lines 390-391: _on_group_changed(self, group, proxy, value, name) is called
\* with the emitting group and that group's signal arguments in their order;
\* it emits 'changed' with (proxy, name, value).
on_group_changed(args) ==
    LET proxy_arg == args.first
        value_arg == args.second
        name_arg == args.third
    IN SignalArgs(proxy_arg, name_arg, value_arg)

\* A group emits 'changed' with args: the emission itself, and those of every
\* group that was connected with add_group, which run _on_group_changed.
RECURSIVE GroupEmit(_, _, _, _)
GroupEmit(g, args, path, links) ==
    {[group |-> g, args |-> args, path |-> Append(path, g)]}
    \cup UNION {GroupEmit(l[2], on_group_changed(args), Append(path, g), links) :
                    l \in {k \in links : k[1] = g}}

\* The proxy emits 'changed' with value v (lines 77, 109): every group that
\* added the proxy runs _on_proxy_changed with the name it was added under.
ProxyEmit(v, names, links) ==
    UNION {GroupEmit(g, on_proxy_changed("proxy", v, names[g]), <<>>, links) :
               g \in {h \in Groups : names[h] # ""}}

NoChange == [emitted |-> FALSE, value |-> ""]

IdleGroups ==
    /\ group_names = [g \in Groups |-> ""]
    /\ group_links = {}
    /\ proxy_change = NoChange
    /\ group_emitted = {}

\* lines 360-367: group.add_proxy(name, proxy)
AddProxy ==
    /\ \E g \in Groups, n \in ProxyNames :
        /\ group_names[g] = ""
        /\ group_names' = [group_names EXCEPT ![g] = n]
    /\ UNCHANGED <<pipe_vars, draw_vars, caps_vars, thread_vars, proxy_vars, log_vars,
                   rename_vars,
                   group_links, proxy_change, group_emitted>>

\* lines 379-384: parent.add_group(group)
AddGroup ==
    /\ \E l \in GroupLinks :
        /\ l \notin group_links
        /\ group_links' = group_links \cup {l}
    /\ UNCHANGED <<pipe_vars, draw_vars, caps_vars, thread_vars, proxy_vars, log_vars,
                   rename_vars,
                   group_names, proxy_change, group_emitted>>

\* The proxy changes to value v and emits its 'changed' signal; the handlers
\* the groups connected run before the emission returns.
ProxyChanged ==
    /\ \E v \in WidgetValues :
        /\ proxy_change' = [emitted |-> TRUE, value |-> v]
        /\ group_emitted' = ProxyEmit(v, group_names, group_links)
    /\ UNCHANGED <<pipe_vars, draw_vars, caps_vars, thread_vars, proxy_vars, log_vars,
                   rename_vars,
                   group_names, group_links>>

(***************************************************************************)
(* logging_helpers: logging_restore                                        *)
(***************************************************************************)
LogHandlers == {"h1", "h2"}

LogLevels == {"DEBUG", "INFO", "WARNING"}

\* Handler lists: logging.root.handlers holds no handler twice.
HandlerLists ==
    {hs \in UNION {[1..n -> LogHandlers] : n \in 0..Cardinality(LogHandlers)} :
        \A i, j \in 1..Len(hs) : i # j => hs[i] # hs[j]}

InList(hs, h) == \E i \in 1..Len(hs) : hs[i] = h

\* Logger.addHandler: append unless already there
addHandler(hs, h) == IF InList(hs, h) THEN hs ELSE Append(hs, h)

\* Logger.removeHandler
removeHandler(hs, h) == SelectSeq(hs, LAMBDA x : x # h)

RECURSIVE addHandlers(_, _)
addHandlers(hs, toAdd) ==
    IF toAdd = <<>> THEN hs
    ELSE addHandlers(addHandler(hs, Head(toAdd)), Tail(toAdd))

RECURSIVE removeHandlers(_, _)
removeHandlers(hs, toRemove) ==
    IF toRemove = <<>> THEN hs
    ELSE removeHandlers(removeHandler(hs, Head(toRemove)), Tail(toRemove))

NoContext ==
    [pc |-> "outside", handlers |-> <<>>, level |-> "WARNING",
     entry |-> [handlers |-> <<>>, level |-> "WARNING"], left_by |-> ""]

IdleLogging ==
    /\ root_logger = [handlers |-> <<>>, level |-> "WARNING"]
    /\ log_ctx = NoContext

\* The root logger as the program configured it before the context.
InitLogging ==
    /\ \E hs \in HandlerLists, lv \in LogLevels :
        root_logger = [handlers |-> hs, level |-> lv]
    /\ log_ctx = NoContext

\* lines 42-46: entering the context: save the handlers and the level, and
\* remove the handlers if clear_handlers.
LogEnter ==
    /\ log_ctx.pc = "outside"
    /\ \E clear_handlers \in BOOLEAN :
        /\ log_ctx' = [pc |-> "inside", handlers |-> root_logger.handlers,
                       level |-> root_logger.level,
                       entry |-> root_logger, left_by |-> ""]
        /\ root_logger' = IF clear_handlers
                          THEN [root_logger EXCEPT !.handlers =
                                   removeHandlers(@, root_logger.handlers)]
                          ELSE root_logger
    /\ UNCHANGED <<pipe_vars, draw_vars, caps_vars, thread_vars, proxy_vars,
                   rename_vars, group_vars>>

\* The body of the with statement adds or removes a handler or sets the level.
LogBody ==
    /\ log_ctx.pc = "inside"
    /\ \/ \E h \in LogHandlers :
            root_logger' = [root_logger EXCEPT !.handlers = addHandler(@, h)]
       \/ \E h \in LogHandlers :
            root_logger' = [root_logger EXCEPT !.handlers = removeHandler(@, h)]
       \/ \E lv \in LogLevels :
            root_logger' = [root_logger EXCEPT !.level = lv]
    /\ UNCHANGED <<pipe_vars, draw_vars, caps_vars, thread_vars, proxy_vars,
                   rename_vars, group_vars, log_ctx>>

\* lines 47-51: the body completed: the generator resumes after the yield,
\* removes the current handlers, adds the saved ones and sets the level.
LogLeave ==
    /\ log_ctx.pc = "inside"
    /\ root_logger' =
          [handlers |-> addHandlers(removeHandlers(root_logger.handlers,
                                                   root_logger.handlers),
                                    log_ctx.handlers),
           level |-> log_ctx.level]
    /\ log_ctx' = [log_ctx EXCEPT !.pc = "left", !.left_by = "completion"]
    /\ UNCHANGED <<pipe_vars, draw_vars, caps_vars, thread_vars, proxy_vars,
                   rename_vars, group_vars>>

\* line 47: the body raised: contextlib throws the exception into the
\* generator at the yield, which is not inside a try statement, so the
\* generator ends there and the exception goes on to the caller.
LogLeaveByException ==
    /\ log_ctx.pc = "inside"
    /\ log_ctx' = [log_ctx EXCEPT !.pc = "left", !.left_by = "exception"]
    /\ UNCHANGED <<pipe_vars, draw_vars, caps_vars, thread_vars, proxy_vars,
                   rename_vars, group_vars, root_logger>>

(***************************************************************************)
(* rename_package_files                                                    *)
(***************************************************************************)
\* The call modelled is rename_package_files(dir, 'old-name', 'new-name'):
\* lines 28-30 give the three forms of each name.  A name or a file's contents
\* is a word or a sequence of words; each word is one of the forms or holds
\* none of them.
names == [old |-> "old-name", new |-> "new-name"]
underscore_names == [old |-> "old_name", new |-> "new_name"]
camel_names == [old |-> "OldName", new |-> "NewName"]

ContentWords == {names.old, underscore_names.old, camel_names.old, "other"}
DirNames == {underscore_names.old, camel_names.old, "other"}
FileNames == {underscore_names.old, camel_names.old, "other", ".gitignore"}

ContentSeqs == UNION {[1..n -> ContentWords] : n \in 0..MaxContent}

\* Words in the order Python compares them as strings.
WordOrder ==
    <<".gitignore", "NewName", "OldName", "new-name", "new_name", "old-name",
      "old_name", "other">>

WordRank(w) == CHOOSE i \in 1..Len(WordOrder) : WordOrder[i] = w

\* Tuple comparison of p.parts
RECURSIVE PartsLess(_, _)
PartsLess(a, b) ==
    IF a = <<>> THEN b # <<>>
    ELSE IF b = <<>> THEN FALSE
    ELSE IF Head(a) = Head(b) THEN PartsLess(Tail(a), Tail(b))
    ELSE WordRank(Head(a)) < WordRank(Head(b))

\* line 61: sorted(..., key=lambda p: p.parts, reverse=True)
RECURSIVE SortedReverse(_)
SortedReverse(paths) ==
    IF paths = {} THEN <<>>
    ELSE LET top == CHOOSE a \in paths : \A b \in paths \ {a} : PartsLess(b, a)
         IN <<top>> \o SortedReverse(paths \ {top})

\* bytes.replace / str.replace, word by word
Replace(ws, old, new) ==
    [k \in 1..Len(ws) |-> IF ws[k] = old THEN new ELSE ws[k]]

\* line 33: '.git' in str(file_path)
HasGit(path) == \E k \in 1..Len(path) : path[k] = ".gitignore"

\* lines 32-43: replace_in_file for the file entry e
replace_in_file(e, exclude) ==
    IF e.path \in exclude \/ HasGit(e.path) THEN e
    ELSE [e EXCEPT !.contents =
            Replace(Replace(Replace(@, names.old, names.new),
                            underscore_names.old, underscore_names.new),
                    camel_names.old, camel_names.new)]

\* lines 46-50: the new name of a path whose name is n
NewName(n) ==
    LET u == IF n = underscore_names.old
             THEN Replace(<<n>>, underscore_names.old, underscore_names.new)[1]
             ELSE n
    IN IF n = camel_names.old
       THEN Replace(<<u>>, camel_names.old, camel_names.new)[1]
       ELSE u

IsPrefix(p, q) == Len(p) <= Len(q) /\ SubSeq(q, 1, Len(p)) = p

\* lines 45-53: rename_path(p): p.rename(p.parent / name_new) moves p and
\* everything below it.
rename_path(t, p) ==
    LET name_new == NewName(p[Len(p)])
    IN IF name_new # p[Len(p)]
       THEN {IF IsPrefix(p, e.path)
             THEN [e EXCEPT !.path = [@ EXCEPT ![Len(p)] = name_new]]
             ELSE e : e \in t}
       ELSE t

RECURSIVE RenameEach(_, _)
RenameEach(t, ps) ==
    IF ps = <<>> THEN t ELSE RenameEach(rename_path(t, Head(ps)), Tail(ps))

\* lines 55-58: contents of every file
ReplaceInFiles(t, exclude) ==
    {IF e.kind = "file" THEN replace_in_file(e, exclude) ELSE e : e \in t}

\* lines 60-62: the paths that are directories, deepest first
DirsToRename(t) == SortedReverse({e.path : e \in {d \in t : d.kind = "dir"}})

\* lines 7-62: rename_package_files(package_dir, old_name, new_name, exclude)
rename_package_files(t, exclude) ==
    LET t1 == ReplaceInFiles(t, exclude)
    IN RenameEach(t1, DirsToRename(t1))

DirEntry(path) == [path |-> path, kind |-> "dir", contents |-> <<>>, orig |-> <<>>]
FileEntry(path, c) == [path |-> path, kind |-> "file", contents |-> c, orig |-> c]

\* The package trees considered: a directory, possibly a directory inside
\* it, and a file in the innermost directory.
Trees ==
    {{DirEntry(<<d1>>), FileEntry(<<d1, f>>, c)} :
        d1 \in DirNames, f \in FileNames, c \in ContentSeqs}
    \cup {{DirEntry(<<d1>>), DirEntry(<<d1, d2>>), FileEntry(<<d1, d2, f>>, c)} :
            d1 \in DirNames, d2 \in DirNames, f \in FileNames, c \in ContentSeqs}

FilePaths(t) == {e.path : e \in {f \in t : f.kind = "file"}}

IdleRename ==
    /\ tree = {}
    /\ rename_call = [done |-> TRUE, exclude |-> {}]

\* exclude: the set of file paths the exclude patterns match.
InitRename ==
    /\ tree \in Trees
    /\ \E ex \in SUBSET FilePaths(tree) :
        rename_call = [done |-> FALSE, exclude |-> ex]

RenamePackageFiles ==
    /\ ~rename_call.done
    /\ tree' = rename_package_files(tree, rename_call.exclude)
    /\ rename_call' = [rename_call EXCEPT !.done = TRUE]
    /\ UNCHANGED <<pipe_vars, draw_vars, caps_vars, thread_vars, proxy_vars,
                   group_vars, log_vars>>

IdleAux == IdleGroups /\ IdleLogging /\ IdleRename

IdleHelpers == IdleThreads /\ IdleProxy /\ IdleAux

(***************************************************************************)
(* Specifications                                                          *)
(***************************************************************************)
PipelineInit == InitPipeline /\ InitDraw /\ IdleCaps /\ IdleHelpers

SpecPipeline == PipelineInit /\ [][GetPipeline]_vars

NextDraw ==
    \/ ConstructBase
    \/ ConstructQueue
    \/ SetProperty
    \/ PipelineDrawStage
    \/ TransformIp

DrawInit == IdlePipeline /\ InitDraw /\ IdleCaps /\ IdleHelpers

SpecDraw == DrawInit /\ [][NextDraw]_vars

NextCaps ==
    \/ ExpandAllowedCapabilities
    \/ GetSourceCapabilities
    \/ GetVideoSourceNames
    \/ GetAllowedCapabilities

CapsInit == IdlePipeline /\ InitDraw /\ InitCaps /\ IdleHelpers

SpecCaps == CapsInit /\ [][NextCaps]_vars

NextAsync == AsyncStart \/ AsyncWorkCallback \/ DispatchLoopCallback

AsyncInit == IdlePipeline /\ InitDraw /\ IdleCaps /\ IdleHelpers

SpecAsync == AsyncInit /\ [][NextAsync]_vars

NextGenerator ==
    \/ GenStart
    \/ GenWorkBegin
    \/ GenWorkYield
    \/ GenWorkFinish
    \/ GenStop
    \/ DispatchLoopCallback
    \/ DispatchComplete

GeneratorInit ==
    /\ IdlePipeline /\ InitDraw /\ IdleCaps
    /\ InitGenerator
    /\ invoke = <<>>
    /\ results = <<>>
    /\ wrapped = <<>>
    /\ IdleProxy
    /\ IdleAux

SpecGenerator == GeneratorInit /\ [][NextGenerator]_vars

NextInvoke == InvokeCall \/ DispatchRun \/ InvokeGet

InvokeInit == IdlePipeline /\ InitDraw /\ IdleCaps /\ IdleHelpers

SpecInvoke == InvokeInit /\ [][NextInvoke]_vars

NextThreadsafe == ThreadsafeCall \/ DispatchNoReturnFunc

ThreadsafeInit == IdlePipeline /\ InitDraw /\ IdleCaps /\ IdleHelpers

SpecThreadsafe == ThreadsafeInit /\ [][NextThreadsafe]_vars

NextProxy == ProxyUpdate \/ WidgetDirectChange

ProxyInit ==
    IdlePipeline /\ InitDraw /\ IdleCaps /\ IdleThreads /\ InitProxy /\ IdleAux

SpecProxy == ProxyInit /\ [][NextProxy]_vars

NextGroup == AddProxy \/ AddGroup \/ ProxyChanged

GroupInit ==
    /\ IdlePipeline /\ InitDraw /\ IdleCaps /\ IdleThreads /\ IdleProxy
    /\ IdleGroups /\ IdleLogging /\ IdleRename

SpecGroup == GroupInit /\ [][NextGroup]_vars

NextLogging == LogEnter \/ LogBody \/ LogLeave \/ LogLeaveByException

LoggingInit ==
    /\ IdlePipeline /\ InitDraw /\ IdleCaps /\ IdleThreads /\ IdleProxy
    /\ IdleGroups /\ InitLogging /\ IdleRename

SpecLogging == LoggingInit /\ [][NextLogging]_vars

RenameInit ==
    /\ IdlePipeline /\ InitDraw /\ IdleCaps /\ IdleThreads /\ IdleProxy
    /\ IdleGroups /\ IdleLogging /\ InitRename

SpecRename == RenameInit /\ [][RenamePackageFiles]_vars

(***************************************************************************)
(* Properties of the overlay draw transform (SpecDraw)                     *)
(***************************************************************************)
TransformDone == frame.status # "none"

\* C1: whenever a drawing command raises while the callback of
\* do_transform_ip is drawing on a buffer, do_transform_ip still returns
\* FLOW_OK.
C1_DrawFailureReturnsFlowOk ==
    (TransformDone /\ frame.draw_failed) => frame.status = "FLOW_OK"

\* C2: whenever acquiring the drawing surface of a buffer fails, no drawing
\* command is issued for the frame, the failure is logged rather than
\* raised, and do_transform_ip returns FLOW_OK.
C2_SurfaceFailureSkipsDrawing ==
    (TransformDone /\ frame.buf.surface # "ok")
        => /\ frame.status = "FLOW_OK"
           /\ frame.issued = 0
           /\ ~frame.draw_failed

C2_Witness ==
    /\ frame.status = "FLOW_OK"
    /\ frame.buf.surface = "create_surface_raises"
    /\ element.draw_on = "render_draw_queue"
    /\ ~element.draw_queue.isNone
    /\ Len(element.draw_queue.render_callables) = MaxCmds
    /\ frame.log = "Failed to create cairo surface for buffer"

(***************************************************************************)
(* Properties of get_pipeline (SpecPipeline)                               *)
(***************************************************************************)
Built == pipeline # NoPipeline

ElementNames(p) == {e.name : e \in p.elements}

CaptureNames ==
    {"capture_queue", "ffmpeg_color_space", "ffenc_mpeg40", "avi_mux", "file_sink"}

ChainLinks(chain) == {<<chain[i], chain[i + 1]>> : i \in 1..(Len(chain) - 1)}

\* Links with an end in the capture branch, and the others.
CaptureLinks(p) == {l \in p.links : l[1] \in CaptureNames \/ l[2] \in CaptureNames}
DisplayLinks(p) == p.links \ CaptureLinks(p)

NonZero(bitrate) == bitrate.t = "int" /\ bitrate.i # 0
NonEmpty(output_path) == output_path.t = "str" /\ output_path.s # ""

\* C3 (as stated): the capture elements are in the pipeline if and only if
\* the bitrate and the output path arguments are both not None.
C3_CaptureIffNotNone ==
    Built => ((ElementNames(pipeline) \cap CaptureNames # {})
                <=> (pipe_args.bitrate.t # "None" /\ pipe_args.output_path.t # "None"))

\* C3 (amended): all five capture elements are in the pipeline if the bitrate
\* is a non-zero number and the output path a non-empty string; otherwise
\* (None, 0 or "" for either) none of them is.
C3_CaptureIffTruthy ==
    Built => (ElementNames(pipeline) \cap CaptureNames =
                IF NonZero(pipe_args.bitrate) /\ NonEmpty(pipe_args.output_path)
                THEN CaptureNames ELSE {})

C3_Witness ==
    /\ Built
    /\ pipe_args.bitrate = PyInt(0)
    /\ pipe_args.output_path = PyStr("out.avi")
    /\ ElementNames(pipeline) \cap CaptureNames = {}

\* The display chain the claim describes: each optional stage present iff
\* requested, in the fixed order grab, scale, warp, draw.
ExpectedDisplayChain(a) ==
    <<"video_source", "video_rate", "video_tee", "display_queue">>
    \o (IF a.on_frame_grabbed.t # "None"
        THEN <<"grab_frame_color_in", "grab_frame", "grab_frame_color_out">>
        ELSE <<>>)
    \o (IF a.with_scale = PyBool(TRUE)
        THEN <<"video_scale", "video_scale_caps_filter">> ELSE <<>>)
    \o (IF a.with_warp = PyBool(TRUE) THEN <<"warp_bin">> ELSE <<>>)
    \o (IF ~a.draw_queue.isNone
        THEN <<"cairo_color_in", "cairo_draw", "cairo_color_out">> ELSE <<>>)
    \o <<"video_sink">>

NoDisplayOption(a) ==
    /\ a.on_frame_grabbed.t = "None"
    /\ a.with_scale = PyBool(FALSE)
    /\ a.with_warp = PyBool(FALSE)
    /\ a.draw_queue.isNone

\* C4: the display branch is the linear chain source, rate-normalizer, tee,
\* queue, [grab], [scale], [warp], [draw], sink: its elements are exactly the
\* stages requested and each is linked to the last present stage before it;
\* with no option it is exactly source, rate-normalizer, tee, queue, sink.
C4_DisplayChainLinear ==
    Built => LET chain == ExpectedDisplayChain(pipe_args)
             IN /\ ElementNames(pipeline) \ CaptureNames = SeqToSet(chain)
                /\ DisplayLinks(pipeline) = ChainLinks(chain)
                /\ NoDisplayOption(pipe_args) =>
                     chain = <<"video_source", "video_rate", "video_tee",
                               "display_queue", "video_sink">>

C4_Witness ==
    /\ Built
    /\ pipe_args.on_frame_grabbed.t # "None"
    /\ pipe_args.with_scale = PyBool(FALSE)
    /\ pipe_args.with_warp = PyBool(TRUE)
    /\ ~pipe_args.draw_queue.isNone
    /\ <<"grab_frame_color_out", "warp_bin">> \in pipeline.links
    /\ <<"cairo_color_out", "video_sink">> \in pipeline.links

LinksFrom(p, n) == {l \in p.links : l[1] = n}
LinksTo(p, n) == {l \in p.links : l[2] = n}

\* C5: the tee has exactly one downstream link per branch (the display
\* queue, and the capture queue when the capture branch exists), each branch
\* queue is fed by the tee only, and every other element has at most one
\* upstream and at most one downstream link.
C5_TeeSingleFanOut ==
    Built =>
        /\ LinksFrom(pipeline, "video_tee") =
              {<<"video_tee", "display_queue">>}
              \cup (IF "capture_queue" \in ElementNames(pipeline)
                    THEN {<<"video_tee", "capture_queue">>} ELSE {})
        /\ \A q \in {"display_queue", "capture_queue"} \cap ElementNames(pipeline) :
              LinksTo(pipeline, q) = {<<"video_tee", q>>}
        /\ \A n \in ElementNames(pipeline) \ {"video_tee"} :
              /\ Cardinality(LinksFrom(pipeline, n)) <= 1
              /\ Cardinality(LinksTo(pipeline, n)) <= 1
        /\ Cardinality(LinksTo(pipeline, "video_tee")) = 1

C5_Witness ==
    /\ Built
    /\ "capture_queue" \in ElementNames(pipeline)
    /\ "warp_bin" \in ElementNames(pipeline)
    /\ Cardinality(LinksFrom(pipeline, "video_tee")) = 2

\* C6: with a bitrate and an output path set (a non-zero bitrate and a
\* non-empty path, the test of line 81), the capture branch is exactly queue,
\* colorspace-convert, encoder, muxer, file sink linked in that order from
\* the tee, the encoder carries the given bitrate and the file sink the given
\* path, whatever display options are chosen.
C6_CaptureBranchExact ==
    (Built /\ NonZero(pipe_args.bitrate) /\ NonEmpty(pipe_args.output_path)) =>
        /\ CaptureLinks(pipeline) =
              ChainLinks(<<"video_tee", "capture_queue", "ffmpeg_color_space",
                           "ffenc_mpeg40", "avi_mux", "file_sink">>)
        /\ {e \in pipeline.elements : e.name \in CaptureNames} =
              {Elem("queue", "capture_queue"),
               Elem("ffmpegcolorspace", "ffmpeg_color_space"),
               Elem(IF pipe_args.system = "Linux" THEN "ffenc_mpeg4" ELSE "xvidenc",
                    "ffenc_mpeg40"),
               Elem("avimux", "avi_mux"),
               Elem("filesink", "file_sink")}
        /\ pipeline.bitrate = pipe_args.bitrate
        /\ pipeline.location = pipe_args.output_path

C6_Witness ==
    /\ Built
    /\ pipe_args.bitrate = PyInt(MaxBitrate)
    /\ pipe_args.output_path = PyStr("out.avi")
    /\ pipe_args.with_scale = PyBool(TRUE)
    /\ ~pipe_args.draw_queue.isNone
    /\ pipeline.bitrate = PyInt(MaxBitrate)
    /\ <<"avi_mux", "file_sink">> \in pipeline.links

(***************************************************************************)
(* Properties of the capability normalization (SpecCaps)                   *)
(***************************************************************************)
ExpandDone == caps_call = [fn |-> "expand_allowed_capabilities", done |-> TRUE]
QueryDone == caps_call = [fn |-> "get_source_capabilities", done |-> TRUE]

RECURSIVE RowsBefore(_)
\* Number of rows of df_modes derived from the capabilities before the i-th.
RowsBefore(i) == IF i = 1 THEN 0 ELSE RowsBefore(i - 1) + Len(frame_rates[i - 1])

\* Indices of the rows of df_modes derived from the i-th capability.
RowsOf(i) == (RowsBefore(i) + 1)..(RowsBefore(i) + Len(frame_rates[i]))

AllRowsDerived ==
    /\ Len(frame_rates) = Len(df_allowed_caps)
    /\ Len(df_modes) = RowsBefore(Len(df_allowed_caps) + 1)

\* C7: in every row derived from a capability, the width (height) is the
\* upper bound of the capability's width (height) range, or its scalar
\* width (height) unchanged.
C7_RangeDimensionIsUpperBound ==
    ExpandDone =>
        /\ AllRowsDerived
        /\ \A i \in 1..Len(df_allowed_caps) : \A k \in RowsOf(i) :
              LET w == df_allowed_caps[i].width
                  h == df_allowed_caps[i].height
              IN /\ w.t = "IntRange" => df_modes[k].width = w.high
                 /\ w.t = "int" => df_modes[k].width = w.v
                 /\ h.t = "IntRange" => df_modes[k].height = h.high
                 /\ h.t = "int" => df_modes[k].height = h.v

C7_Witness ==
    /\ ExpandDone
    /\ Len(df_allowed_caps) = 2
    /\ df_allowed_caps[1].width.t = "IntRange"
    /\ df_allowed_caps[2].height.t = "IntRange"
    /\ df_allowed_caps[1].framerate.t = "FractionRange"
    /\ Len(df_modes) = 3
    /\ df_modes[2].width = 640
    /\ df_modes[3].height = 480

\* C8: a capability whose framerate is a range gives exactly two rows, one
\* with the low and one with the high endpoint and nothing else, equal in
\* every column but the framerate.
C8_RangeGivesTwoEndpointRows ==
    ExpandDone =>
        /\ AllRowsDerived
        /\ \A i \in 1..Len(df_allowed_caps) :
              df_allowed_caps[i].framerate.t = "FractionRange" =>
                 LET fr == df_allowed_caps[i].framerate.items
                     first == RowsBefore(i) + 1
                 IN /\ Cardinality(RowsOf(i)) = 2
                    /\ {<<df_modes[k].framerate_num, df_modes[k].framerate_denom>> :
                           k \in RowsOf(i)} = {fr[1], fr[2]}
                    /\ df_modes[first] # df_modes[first + 1]
                    /\ \A k \in RowsOf(i) :
                          /\ df_modes[k].width = df_modes[first].width
                          /\ df_modes[k].height = df_modes[first].height
                          /\ df_modes[k].name = df_modes[first].name
                          /\ df_modes[k].fourcc = df_modes[first].fourcc

C8_Witness ==
    /\ ExpandDone
    /\ Len(df_allowed_caps) = 2
    /\ df_allowed_caps[2].framerate = FractionRange(<<15, 2>>, <<10, 1>>)
    /\ Len(df_modes) >= 3
    /\ df_modes[Len(df_modes) - 1].framerate_num = 10
    /\ df_modes[Len(df_modes)].framerate_num = 15

\* C9: a capability whose framerate is a list gives one row per distinct
\* listed (numerator, denominator) pair, in increasing order of the pairs
\* (numerator first, then denominator); a scalar framerate gives exactly one
\* row, carrying its numerator and denominator.
C9_ListGivesSortedDistinctRows ==
    ExpandDone =>
        /\ AllRowsDerived
        /\ \A i \in 1..Len(df_allowed_caps) :
              LET fr == df_allowed_caps[i].framerate
                  Fps(k) == <<df_modes[k].framerate_num, df_modes[k].framerate_denom>>
              IN /\ fr.t = "list" =>
                       /\ {Fps(k) : k \in RowsOf(i)} = SeqToSet(fr.items)
                       /\ \A k \in RowsOf(i) \ {RowsBefore(i) + 1} :
                             TupleLess(Fps(k - 1), Fps(k))
                 /\ fr.t = "Fraction" =>
                       /\ Cardinality(RowsOf(i)) = 1
                       /\ Fps(RowsBefore(i) + 1) = fr.items[1]

C9_Witness ==
    /\ ExpandDone
    /\ Len(df_allowed_caps) = 2
    /\ df_allowed_caps[1].framerate = FractionList(<<<<15, 2>>, <<10, 1>>>>)
    /\ df_allowed_caps[2].framerate = FractionList(<<<<10, 1>>, <<10, 1>>>>)
    /\ Len(df_modes) = 3
    /\ df_modes[1].framerate_num = 10
    /\ df_modes[2].framerate_num = 15

\* Probing the device gives no row: linking fails, or no caps are allowed.
NoRows(p) == p.kind = "LinkError" \/ (p.kind = "ok" /\ p.caps = <<>>)

\* C10: get_source_capabilities called with a list of devices that is empty,
\* or whose devices all fail to link or have no allowed capabilities, returns
\* an empty table and raises nothing.
C10_NoRowsGivesEmptyTable ==
    (/\ QueryDone
     /\ ~video_source_names.isNone
     /\ \A i \in 1..Len(video_source_names.names) :
           NoRows(probe[video_source_names.names[i]]))
        => source_caps = [status |-> "returned", rows |-> <<>>]

C10_Witness ==
    /\ QueryDone
    /\ video_source_names = NamesList(<<"cam0", "cam1">>)
    /\ probe["cam0"].kind = "LinkError"
    /\ probe["cam1"] = ProbeCaps(<<>>)
    /\ source_caps = [status |-> "returned", rows |-> <<>>]

NamesDone == caps_call = [fn |-> "get_video_source_names", done |-> TRUE]

\* The list discovery comes up with is empty: the listing is empty, or (on
\* the probing path) probing raised and the list was reset to [].
DiscoveredNothing(d) == d.devices = <<>> \/ (d.system # "Linux" /\ d.raises)

\* C11: get_video_source_names raises DeviceNotFound whenever the discovered
\* device list is empty, on both platforms, and returns a list only when the
\* list is non-empty.
C11_EmptyDiscoveryRaises ==
    NamesDone =>
        /\ (DiscoveredNothing(discovery) \/ discovery.raises)
              => source_names.raised = "DeviceNotFound"
        /\ source_names.raised = "" => source_names.devices # <<>>

\* The devices of the call, in order, that can be probed (their link may fail).
AllProbed ==
    \A i \in 1..Len(video_source_names.names) :
        probe[video_source_names.names[i]].kind \in {"LinkError", "ok"}

\* Rows the i-th device of the call is expected to contribute: none when its
\* link fails, else its expanded table with its name in front.
ExpectedRowsOf(i) ==
    LET d == video_source_names.names[i]
    IN IF probe[d].kind = "ok"
       THEN WithDeviceName(expand_allowed_capabilities(probe[d].caps), d)
       ELSE <<>>

RECURSIVE ExpectedBefore(_)
\* Number of rows expected from the devices before the i-th.
ExpectedBefore(i) ==
    IF i = 1 THEN 0 ELSE ExpectedBefore(i - 1) + Len(ExpectedRowsOf(i - 1))

\* C12: when linking fails for a device of the call, the call still returns,
\* with no row of that device and all the rows of every other device.
C12_LinkFailureSkipsDevice ==
    (/\ QueryDone
     /\ ~video_source_names.isNone
     /\ AllProbed
     /\ \E i \in 1..Len(video_source_names.names) :
           probe[video_source_names.names[i]].kind = "LinkError")
        => /\ source_caps.status = "returned"
           /\ \A i \in 1..Len(video_source_names.names) :
                 LET d == video_source_names.names[i]
                     mine == {k \in 1..Len(source_caps.rows) :
                                 source_caps.rows[k].device_name = d}
                     times == Cardinality({j \in 1..Len(video_source_names.names) :
                                              video_source_names.names[j] = d})
                 IN IF probe[d].kind = "LinkError"
                    THEN mine = {}
                    ELSE Cardinality(mine) =
                            times * Len(expand_allowed_capabilities(probe[d].caps))

C12_Witness ==
    /\ QueryDone
    /\ video_source_names = NamesList(<<"cam0", "cam1">>)
    /\ probe["cam0"].kind = "LinkError"
    /\ probe["cam1"].kind = "ok"
    /\ Len(probe["cam1"].caps) = 2
    /\ source_caps.status = "returned"
    /\ Len(source_caps.rows) >= 2
    /\ source_caps.rows[1].device_name = "cam1"

\* C13: the table returned for several devices is the concatenation of the
\* per-device tables: as many rows as the devices' tables have together,
\* each device's rows in the order of its expanded table and carrying its
\* device_name, the devices in the order of the call.
C13_ConcatenatesDeviceTables ==
    (QueryDone /\ ~video_source_names.isNone /\ AllProbed)
        => /\ source_caps.status = "returned"
           /\ Len(source_caps.rows) =
                 ExpectedBefore(Len(video_source_names.names) + 1)
           /\ \A i \in 1..Len(video_source_names.names) :
                 \A k \in 1..Len(ExpectedRowsOf(i)) :
                    LET row == source_caps.rows[ExpectedBefore(i) + k]
                    IN /\ row.device_name = video_source_names.names[i]
                       /\ row = ExpectedRowsOf(i)[k]

C13_Witness ==
    /\ QueryDone
    /\ video_source_names = NamesList(<<"cam1", "cam0">>)
    /\ probe["cam0"].kind = "ok"
    /\ probe["cam1"].kind = "ok"
    /\ Len(probe["cam0"].caps) = 1
    /\ Len(probe["cam1"].caps) = 2
    /\ Len(source_caps.rows) >= 3
    /\ source_caps.rows[1].device_name = "cam1"
    /\ source_caps.rows[Len(source_caps.rows)].device_name = "cam0"

(***************************************************************************)
(* The draw-queue property of the overlay element (SpecDraw)               *)
(***************************************************************************)
\* C14: reading the draw-queue property gives a serialization of the draw
\* instructions most recently set: None after construction, the value of the
\* last property update, or the draw_queue get_pipeline attached when it
\* created the draw stage.
C14_DrawQueuePropertyRoundTrips ==
    pickle_loads(do_get_property(element)) = draw_instructions

C14_Witness ==
    /\ element.draw_on = "render_draw_queue"
    /\ draw_instructions = DrawQueue(<<"text", "arc">>)
    /\ do_get_property(element) = <<"DrawQueue", "(", "text", "arc", ")", ".">>
    /\ frame.status = "FLOW_OK"
    /\ frame.issued = 2

(***************************************************************************)
(* Properties of AsyncTask (SpecAsync)                                     *)
(***************************************************************************)
\* C15: loop_callback is never called with the result of a start() after a
\* later start() has been issued: every call delivers the result of what was
\* the latest start when it was made.
C15_LaterStartCancelsEarlier ==
    \A c \in 1..Len(loop_calls) : loop_calls[c].start = loop_calls[c].latest

\* C19: loop_callback gets no argument for a None result, the items of a
\* tuple result as its arguments, any other result as its single argument,
\* and is called by the main loop, never by the worker thread.
C19_ResultPassedAsDocumented ==
    \A c \in 1..Len(loop_calls) :
        LET call == loop_calls[c]
            ret == workers[call.start].ret
        IN /\ workers[call.start].pc = "posted"
           /\ call.thread = "mainloop"
           /\ ret.t = "None" => call.args = <<>>
           /\ ret.t = "tuple" =>
                 /\ Len(call.args) = Len(ret.items)
                 /\ \A k \in 1..Len(ret.items) : call.args[k] = RetObj(ret.items[k])
           /\ ret.t = "object" => call.args = <<ret>>

C19_Witness ==
    /\ Len(loop_calls) = 2
    /\ loop_calls[1].ret = RetTuple(<<"a", "b">>)
    /\ loop_calls[1].args = <<RetObj("a"), RetObj("b")>>
    /\ loop_calls[2].ret = RetNone
    /\ loop_calls[2].args = <<>>

(***************************************************************************)
(* Properties of GeneratorTask (SpecGenerator)                             *)
(***************************************************************************)
\* C17: while stop() has not been called on a started GeneratorTask, the
\* main loop has called the loop callback once for each of the first yielded
\* values, in the order they were yielded; the complete callback is only
\* called once the loop callback has been called for the last value; and when
\* the worker has finished and no idle source is left, every value has been
\* delivered and a given complete callback has been called.
C17_LoopPerValueThenComplete ==
    (gen.pc # "constructed" /\ ~gen.stop_called) =>
        /\ Len(loop_calls) < gen.next
        /\ \A c \in 1..Len(loop_calls) :
              /\ loop_calls[c].ret = gen.values[c]
              /\ loop_calls[c].args = LoopArgs(gen.values[c])
              /\ loop_calls[c].thread = "mainloop"
        /\ complete_calls > 0 =>
              /\ gen.complete_given
              /\ Len(loop_calls) = Len(gen.values)
        /\ (gen.pc = "done" /\ idle_sources = <<>>) =>
              /\ Len(loop_calls) = Len(gen.values)
              /\ gen.complete_given => complete_calls >= 1

C17_Witness ==
    /\ ~gen.stop_called
    /\ gen.pc = "done"
    /\ gen.values = <<RetObj("x"), RetTuple(<<"a", "b">>)>>
    /\ Len(loop_calls) = 2
    /\ complete_calls = 1
    /\ idle_sources = <<>>

(***************************************************************************)
(* Properties of invoke_in_mainloop (SpecInvoke)                           *)
(***************************************************************************)
\* C16: once the main loop has run func for a call of invoke_in_mainloop and
\* the caller has taken everything that was put on its queue (nothing more
\* will be put), the call has completed: it has returned func's value if func
\* returned, and raised func's exception if func raised.
C16_CallerAlwaysCompletes ==
    \A c \in 1..Len(invoke) :
        /\ (invoke[c].run = "done" /\ results[c] = <<>>) =>
              invoke[c].pc = (IF invoke[c].outcome.raises THEN "raised" ELSE "returned")
        /\ invoke[c].pc = "returned" =>
              (~invoke[c].outcome.raises /\ invoke[c].result = invoke[c].outcome.value)
        /\ invoke[c].pc = "raised" => invoke[c].outcome.raises

(***************************************************************************)
(* Properties of gtk_threadsafe (SpecThreadsafe)                           *)
(***************************************************************************)
SourceAttached(k) ==
    \E i \in 1..Len(idle_sources) :
        idle_sources[i].cb = "_no_return_func" /\ idle_sources[i].id = k

\* C18: a call of a gtk_threadsafe wrapper returns with the function not yet
\* run; the main loop runs the function once, and after that run the idle
\* source is gone whatever the function returned, so it never runs again.
C18_RunsOnceInMainloop ==
    \A k \in 1..Len(wrapped) :
        /\ wrapped[k].returned
        /\ SourceAttached(k) => wrapped[k].threads = <<>>
        /\ ~SourceAttached(k) => wrapped[k].threads = <<"mainloop">>

C18_Witness ==
    /\ Len(wrapped) = 2
    /\ wrapped[1].threads = <<"mainloop">>
    /\ wrapped[1].ret = RetObj("x")
    /\ wrapped[2].threads = <<"mainloop">>
    /\ idle_sources = <<>>

(***************************************************************************)
(* Properties of GObjectProxy (SpecProxy)                                  *)
(***************************************************************************)
EmissionsOf(op) == {e \in 1..Len(emitted) : emitted[e].op = op}

\* The value the widget had after operation op.
ValueAfter(op) == ops[op].value

EmitsOnce(op, via) ==
    /\ Cardinality(EmissionsOf(op)) = 1
    /\ \A e \in EmissionsOf(op) :
          emitted[e].value = ValueAfter(op) /\ emitted[e].via = via

HandlersUnblocked ==
    \A h \in 1..Len(widget.handlers) : widget.handlers[h].blocked = 0

C21_GroupsEmitProxyNameValue ==
    \A e \in group_emitted :
        e.args = SignalArgs("proxy", group_names[e.path[1]], proxy_change.value)

(***************************************************************************)
(* Properties of logging_restore (SpecLogging)                             *)
(***************************************************************************)
\* C22: after a logging_restore context is left, by completion of the body
\* or by an exception raised in it, the root logger's handler list and level
\* equal those at entry.
C22_RootLoggerRestored ==
    log_ctx.pc = "left" => root_logger = log_ctx.entry

(***************************************************************************)
(* Properties of rename_package_files (SpecRename)                         *)
(***************************************************************************)
OldForms == {names.old, underscore_names.old, camel_names.old}

HasWord(ws, forms) == \E k \in 1..Len(ws) : ws[k] \in forms

\* C23: after rename_package_files returned, no file name and no directory
\* name holds the '_'-separated or CamelCase form of old_name, and the
\* contents of every file that exclude does not match hold none of the three
\* forms of old_name.
C23_AllOccurrencesRenamed ==
    (rename_call.done /\ tree # {}) =>
        \A e \in tree :
            /\ ~HasWord(e.path, {underscore_names.old, camel_names.old})
            /\ (e.kind = "file" /\ \A x \in rename_call.exclude : x[Len(x)] # e.path[Len(e.path)]) =>
                  ~HasWord(e.contents, OldForms)

(***************************************************************************)
(* Properties of the capability probe pipeline (SpecCaps)                  *)
(***************************************************************************)
\* C24: when get_allowed_capabilities is left, by return or by an exception,
\* a probe pipeline that was set to READY is back in the NULL state.
C24_ProbePipelineBackToNull ==
    caps_call = [fn |-> "get_allowed_capabilities", done |-> TRUE] =>
        (allowed_caps.was_ready => allowed_caps.state = "NULL")

====
